---- MODULE Spec2Model ----
(***************************************************************************)
(* View-state model of the Thodar registry dashboard.                      *)
(*                                                                         *)
(* RegistryDashboardSection (RegistrySections.tsx) owns three pieces of    *)
(* React state: comparisonMode, selectedIds and showComparison.  The page  *)
(* root RegistryAndAnalyticsSections owns selectedRecord, the record open  *)
(* in the detail panel.  Every React event handler runs to completion and  *)
(* the component re-renders before the next event is delivered, so each    *)
(* handler is one atomic action that reads the state of the latest render. *)
(* The effects scheduled by a render (useEffect cleanup and setup) are     *)
(* flushed before the next event is handled, so they belong to the action  *)
(* of the handler that caused the render.                                  *)
(*                                                                         *)
(* App.tsx adds the two scroll hooks: useActiveSection, which keeps the    *)
(* navigation's active section from one IntersectionObserver per section   *)
(* element found at mount, and useFadeIn, which reveals a block when its   *)
(* observer reports it intersecting.                                       *)
(***************************************************************************)
EXTENDS Integers, Sequences, FiniteSets, TLC

(***************************************************************************)
(* Bounds and program constants                                            *)
(***************************************************************************)

\* Number of records of REGISTRY_DATA that the model keeps (the shipped
\* registry has 10; the selection logic only needs more records than the cap).
NumRecords == 4

\* Selection cap of toggleSelection: `selectedIds.length >= 3`.
MaxSelected == 3

\* Minimum number of selected records for the compare button and the
\* comparison panel: `selectedIds.length >= 2`, `selectedRecords.length >= 2`.
MinCompare == 2

\* `null` of useState<ImplantRecord | null>(null).
NoRecord == 0

\* The record identifiers, in registry order.  A record is identified with
\* its id (ids are unique in the registry).
REGISTRY_DATA == [i \in 1..NumRecords |-> i]

RecordIds == {REGISTRY_DATA[i] : i \in 1..Len(REGISTRY_DATA)}

\* Values of KeyboardEvent.key that the row's onKeyDown distinguishes:
\* Enter and Space activate the row, any other key (Tab here) does nothing.
Keys == {"Enter", " ", "Tab"}

\* The first header cell of the comparison table ("Attribute").
AttributeColumn == "Attribute"

\* Values of KeyboardEvent.key that CaseReviewPanel's document listener
\* distinguishes: Escape closes the panel, any other key (Tab here) does not.
PanelKeys == {"Escape", "Tab"}

\* document.body.style.overflow as the effect of CaseReviewPanel writes it.
OverflowHidden == "hidden"
OverflowCleared == ""

\* Number of entries of NAV_LINKS, counted from the first, that the model
\* keeps besides the "Comparison" entry (the page has 17 entries; all but
\* "Comparison" point at sections that are rendered unconditionally).
NumSections == 3

\* Largest number of IntersectionObserverEntry records in one callback.
MaxEntries == 2

\* Number of FadeIn blocks that the model keeps.
NumFadeBlocks == 2

\* const NAV_LINKS = [{ label, href }, ...]; an href is "#" followed by the id.
NAV_LINKS ==
    << [label |-> "Overview",      href |-> <<"#", "hero">>],
       [label |-> "Problem",       href |-> <<"#", "clinical-problem">>],
       [label |-> "Platform",      href |-> <<"#", "platform">>],
       [label |-> "Vision",        href |-> <<"#", "vision">>],
       [label |-> "Team",          href |-> <<"#", "team">>],
       [label |-> "Clinical",      href |-> <<"#", "clinical-problem-registry">>],
       [label |-> "Dashboard",     href |-> <<"#", "dashboard">>],
       [label |-> "Registry",      href |-> <<"#", "registry">>],
       [label |-> "Analytics",     href |-> <<"#", "analytics">>],
       [label |-> "Comparison",    href |-> <<"#", "comparison">>],
       [label |-> "Governance",    href |-> <<"#", "governance">>],
       [label |-> "Audit",         href |-> <<"#", "audit">>],
       [label |-> "Pilot Scope",   href |-> <<"#", "pilot-scope">>],
       [label |-> "Pathway",       href |-> <<"#", "implementation">>],
       [label |-> "Scope",         href |-> <<"#", "scope">>],
       [label |-> "Compliance",    href |-> <<"#", "compliance">>],
       [label |-> "Collaboration", href |-> <<"#", "collaboration">>] >>

\* The entries of NAV_LINKS that the model keeps, in their order.
KeptLinks ==
    LET kept == {i \in 1..Len(NAV_LINKS) :
                    i <= NumSections \/ NAV_LINKS[i].label = "Comparison"}
        F[i \in 0..Len(NAV_LINKS)] ==
            IF i = 0 THEN <<>>
            ELSE IF i \in kept THEN Append(F[i-1], NAV_LINKS[i]) ELSE F[i-1]
    IN  F[Len(NAV_LINKS)]

\* const SECTION_IDS = NAV_LINKS.map((l) => l.href.slice(1))
SECTION_IDS == [i \in 1..Len(KeptLinks) |-> Tail(KeptLinks[i].href)[1]]

\* The id of the comparison panel, rendered only while the panel is shown.
ComparisonSectionId == "comparison"

\* The section ids that the page renders unconditionally (id="..." of the
\* section elements of App.tsx and RegistrySections.tsx).
StaticElementIds ==
    {"hero", "clinical-problem", "platform", "vision", "team",
     "clinical-problem-registry", "dashboard", "registry", "analytics",
     "governance", "audit", "pilot-scope", "implementation", "scope",
     "compliance", "collaboration"}

\* The FadeIn blocks of the page.
FadeBlocks == 1..NumFadeBlocks

\* No FadeIn block (events that are not about one).
NoBlock == 0

\* The lists of isIntersecting flags that one observer callback may receive.
EntryLists ==
    UNION {[1..n -> BOOLEAN] : n \in 1..MaxEntries}

\* Inline values of document.body.style.overflow that the host document may
\* carry before the panel is opened for the first time (none, or a scrolling
\* value set by the embedding page).
PriorOverflowValues == {"", "scroll"}

VARIABLES
    comparisonMode,   \* useState(false)
    selectedIds,      \* useState<string[]>([]): ids in the order they were selected
    showComparison,   \* useState(false)
    selectedRecord,   \* useState<ImplantRecord | null>(null) of the page root
    alertRaised,      \* TRUE iff the latest handler called alert("A maximum of 3 ...")
    lastEvent,        \* the latest event delivered, with what the render showed before it
    mounted,          \* TRUE while the page (App) is mounted
    keyListeners,     \* number of CaseReviewPanel keydown listeners attached to document
    bodyOverflow,     \* document.body.style.overflow
    overflowAtOpen,   \* bodyOverflow as it was when the panel was last opened
    activeId,         \* useState(ids[0] ?? "") of useActiveSection
    sectionObservers, \* section id -> connected?, for the observers the tracker created
    trackerThrew,     \* TRUE iff the effect of useActiveSection threw
    domSections,      \* ids of the section elements the document renders unconditionally
    revealed,         \* block -> has class "is-visible"
    fadeObservers,    \* the FadeIn blocks whose observer is connected
    lastIntersecting, \* section of the latest intersecting entry a tracker callback processed
    mobileOpen,       \* useState(false) of Navigation
    activation,       \* the keyboard activation of a row checkbox in progress or just done
    recordData,       \* the attributes of the record handed to the render helpers
    view              \* what the latest render of that record produced

\* The state that the dashboard and panel handlers never touch.
auxVars == <<lastIntersecting, mobileOpen, activation, recordData, view>>

\* The state of the two scroll hooks.
scrollVars == <<activeId, sectionObservers, trackerThrew, domSections,
                revealed, fadeObservers>>

\* The document state that the effect of CaseReviewPanel acquires and releases.
docVars == <<keyListeners, bodyOverflow, overflowAtOpen>>

vars == <<comparisonMode, selectedIds, showComparison, selectedRecord,
          alertRaised, lastEvent, mounted, keyListeners, bodyOverflow,
          overflowAtOpen, activeId, sectionObservers, trackerThrew,
          domSections, revealed, fadeObservers, lastIntersecting, mobileOpen,
          activation, recordData, view>>

(***************************************************************************)
(* Pure helpers of the render                                              *)
(***************************************************************************)

\* Array.prototype.includes
Includes(s, x) == \E i \in 1..Len(s) : s[i] = x

\* The set of elements of a sequence.
Range(s) == {s[i] : i \in 1..Len(s)}

\* prev.filter((x) => x !== id)
FilterOut(prev, id) == SelectSeq(prev, LAMBDA x : x # id)

\* Plausible slip: the derived list is cut to a side-by-side pair
\* (`.slice(0, 2)`), dropping the third selected record.
selectedRecords_FirstTwo ==
    LET all == SelectSeq(REGISTRY_DATA, LAMBDA r : Includes(selectedIds, r))
    IN  SubSeq(all, 1, IF Len(all) < 2 THEN Len(all) ELSE 2)

\* REGISTRY_DATA.filter((r) => selectedIds.includes(r.id))
selectedRecords ==
    SelectSeq(REGISTRY_DATA, LAMBDA r : Includes(selectedIds, r))

\* {comparisonMode && showComparison && selectedRecords.length >= 2 && (...)}
comparisonShown ==
    comparisonMode /\ showComparison /\ Len(selectedRecords) >= MinCompare

\* {comparisonMode && ... selectedIds.length >= 2 && <Button>Compare Selected}
compareAvailable == comparisonMode /\ Len(selectedIds) >= MinCompare

\* {comparisonMode && ... selectedIds.length > 0 && <button>Clear selection}
clearAvailable == comparisonMode /\ Len(selectedIds) > 0

\* Header cells of the comparison table: <th>Attribute</th> followed by
\* selectedRecords.map((r) => <th>{r.patientId}</th>).
comparisonColumns == <<AttributeColumn>> \o selectedRecords

\* The event record kept for the properties: which handler ran, on which row,
\* whether it called toggleSelection, and whether that row was selected, the
\* comparison table was shown and which record was open in the detail panel
\* in the render the event was delivered to.
Event(op, id, toggled) ==
    [op |-> op, id |-> id, toggled |-> toggled,
     wasSelected |-> Includes(selectedIds, id),
     wasShown |-> comparisonShown,
     prevRecord |-> selectedRecord,
     section |-> "", block |-> NoBlock]

\* The record of an intersection event about a section or a FadeIn block.
ScrollEvent(op, section, block) ==
    [Event(op, NoRecord, FALSE) EXCEPT !.section = section, !.block = block]

\* {selectedRecord && <CaseReviewPanel record={selectedRecord} ... />}
panelShowing == mounted /\ selectedRecord # NoRecord

\* The scroll lock: the body does not scroll behind the panel.
scrollLocked == bodyOverflow = OverflowHidden

(***************************************************************************)
(* The scroll hooks                                                        *)
(***************************************************************************)

\* document.getElementById(id) finds an element: a section rendered
\* unconditionally, or the comparison panel while it is shown.
documentHasElement(id) ==
    \/ id \in domSections
    \/ id = ComparisonSectionId /\ mounted /\ comparisonShown

\* Plausible slip: the initial state ignores the list of ids.
initialActiveId_Empty(ids) == ""

\* useState<string>(ids[0] ?? "")
initialActiveId(ids) == IF Len(ids) > 0 THEN ids[1] ELSE ""

\* Plausible slip: no `if (!el) continue`, so obs.observe(null) throws for the
\* first id without an element and the ids after it get no observer.
useActiveSectionEffect_NoNullCheck(ids) ==
    LET missing == {i \in 1..Len(ids) : ~documentHasElement(ids[i])}
        found == {ids[i] : i \in {j \in 1..Len(ids) : \A k \in missing : j < k}}
    IN  [observers |-> [id \in found |-> TRUE], threw |-> missing # {}]

\* The effect of useActiveSection: for (const id of ids) { const el =
\* document.getElementById(id); if (!el) continue; ... obs.observe(el);
\* observers.push(obs); }  One connected observer per element found.
useActiveSectionEffect(ids) ==
    LET found == {ids[i] : i \in {j \in 1..Len(ids) : documentHasElement(ids[j])}}
    IN  [observers |-> [id \in found |-> TRUE], threw |-> FALSE]

\* An entry of the list reports isIntersecting.
AnyIntersecting(entries) == \E i \in 1..Len(entries) : entries[i]

\* Plausible slip: the callback reads the id from a shared `let` that the
\* loop has left at the last id of the list.
sectionCallback_LastId(id, entries, current) ==
    IF AnyIntersecting(entries) THEN SECTION_IDS[Len(SECTION_IDS)] ELSE current

\* The callback of the observer of section `id`:
\* for (const entry of entries) { if (entry.isIntersecting) setActiveId(id); }
sectionCallback(id, entries, current) ==
    IF AnyIntersecting(entries) THEN id ELSE current

\* Plausible slip: the class follows the latest entry
\* (classList.toggle("is-visible", entry.isIntersecting)).
fadeCallback_Toggle(entries, isVisible) == entries[Len(entries)]

\* The callback of a FadeIn observer:
\* for (const entry of entries) { if (entry.isIntersecting)
\*     entry.target.classList.add("is-visible"); }
fadeCallback(entries, isVisible) == isVisible \/ AnyIntersecting(entries)

(***************************************************************************)
(* Initial state: the useState initialisers and the mount effects          *)
(***************************************************************************)
\* No section has been reported intersecting yet.
NoSection == ""

\* No keyboard activation of a checkbox is in progress.
NoActivation ==
    [id |-> NoRecord, wasSelected |-> FALSE, calls |-> 0, pending |-> FALSE]

\* A record of the registry as shipped: a valid surgery date and attributes
\* inside their enumerations.
ShippedRecord ==
    [surgeryDate |-> [kind |-> "date", daysAgo |-> 400],
     followUpStatus |-> "Scheduled", alertLevel |-> "stable", riskLevel |-> "Low"]

\* Nothing rendered yet.
\* A table cell or field that shows nothing, and a badge that is not part of
\* the rendered place.
NoCell == [text |-> "", n |-> 0]
NoBadge == [threw |-> FALSE, bg |-> "", border |-> "", color |-> "", text |-> ""]
NoView == [place |-> "none", duration |-> NoCell, status |-> NoBadge,
           alert |-> NoBadge, risk |-> NoBadge]

InitAux ==
    /\ lastIntersecting = NoSection
    /\ mobileOpen = FALSE
    /\ activation = NoActivation
    /\ recordData = ShippedRecord
    /\ view = NoView

\* The page mounted in a document whose unconditional section elements are
\* `dom`.
InitDocument(dom) ==
    /\ domSections = dom
    /\ activeId = initialActiveId(SECTION_IDS)
    /\ revealed = [b \in FadeBlocks |-> FALSE]
    /\ fadeObservers = FadeBlocks

Init ==
    /\ comparisonMode = FALSE
    /\ selectedIds = <<>>
    /\ showComparison = FALSE
    /\ selectedRecord = NoRecord
    /\ alertRaised = FALSE
    /\ lastEvent = [op |-> "none", id |-> NoRecord, toggled |-> FALSE,
                    wasSelected |-> FALSE, wasShown |-> FALSE,
                    prevRecord |-> NoRecord, section |-> "", block |-> NoBlock]
    /\ mounted = TRUE
    /\ keyListeners = 0
    /\ bodyOverflow \in PriorOverflowValues
    /\ overflowAtOpen = bodyOverflow
    /\ InitDocument(StaticElementIds)
    /\ sectionObservers = useActiveSectionEffect(SECTION_IDS).observers
    /\ trackerThrew = useActiveSectionEffect(SECTION_IDS).threw
    /\ InitAux

(***************************************************************************)
(* The effect of CaseReviewPanel on the document                           *)
(***************************************************************************)

\* Plausible slip: the cleanup forgets removeEventListener.
panelEffectCleanup_KeepsListener(doc) ==
    [listeners |-> doc.listeners, overflow |-> OverflowCleared]

\* Plausible slip: the cleanup forgets to release the scroll lock.
panelEffectCleanup_KeepsLock(doc) ==
    [listeners |-> doc.listeners - 1, overflow |-> doc.overflow]

\* The body of the effect: addEventListener("keydown", handleKey) and
\* document.body.style.overflow = "hidden".
panelEffectSetup(doc) ==
    [listeners |-> doc.listeners + 1, overflow |-> OverflowHidden]

\* The cleanup returned by the effect: removeEventListener("keydown",
\* handleKey) and document.body.style.overflow = "".
panelEffectCleanup(doc) ==
    [listeners |-> doc.listeners - 1, overflow |-> OverflowCleared]

\* The document after React commits a change of selectedRecord from `prev`
\* to `next`: the panel mounts (setup), unmounts (cleanup), or stays mounted
\* under a re-rendered parent whose inline onClose is a new function, so the
\* effect with dependency [onClose] is cleaned up and set up again.  Setting
\* the state to the value it already has does not re-render.
commitPanel(prev, next, doc) ==
    IF prev = next THEN doc
    ELSE IF prev = NoRecord THEN panelEffectSetup(doc)
    ELSE IF next = NoRecord THEN panelEffectCleanup(doc)
    ELSE panelEffectSetup(panelEffectCleanup(doc))

\* setSelectedRecord(next) of RegistryAndAnalyticsSections, with the commit
\* that follows it.
setSelectedRecord(next) ==
    LET doc == commitPanel(selectedRecord, next,
                           [listeners |-> keyListeners, overflow |-> bodyOverflow])
    IN  /\ selectedRecord' = next
        /\ keyListeners' = doc.listeners
        /\ bodyOverflow' = doc.overflow
        /\ overflowAtOpen' = IF selectedRecord = NoRecord /\ next # NoRecord
                             THEN bodyOverflow ELSE overflowAtOpen

(***************************************************************************)
(* Handlers                                                                *)
(***************************************************************************)

\* Plausible slip: the cap test is off by one (`> 3` instead of `>= 3`).
toggleSelection_CapOffByOne(id) ==
    IF Includes(selectedIds, id)
    THEN /\ selectedIds' = FilterOut(selectedIds, id)
         /\ alertRaised' = FALSE
    ELSE IF Len(selectedIds) > MaxSelected
         THEN /\ alertRaised' = TRUE
              /\ UNCHANGED selectedIds
         ELSE /\ selectedIds' = Append(selectedIds, id)
              /\ alertRaised' = FALSE

\* Plausible slip: deselecting drops the most recently selected id
\* (`prev.slice(0, -1)`) instead of the toggled one.
toggleSelection_DropLast(id) ==
    IF Includes(selectedIds, id)
    THEN /\ selectedIds' = SubSeq(selectedIds, 1, Len(selectedIds) - 1)
         /\ alertRaised' = FALSE
    ELSE IF Len(selectedIds) >= MaxSelected
         THEN /\ alertRaised' = TRUE
              /\ UNCHANGED selectedIds
         ELSE /\ selectedIds' = Append(selectedIds, id)
              /\ alertRaised' = FALSE

\* Plausible slip: the membership test never matches (it compares against
\* the record instead of its id), so every toggle below the cap appends.
toggleSelection_AlwaysAppend(id) ==
    IF Len(selectedIds) >= MaxSelected
    THEN /\ alertRaised' = TRUE
         /\ UNCHANGED selectedIds
    ELSE /\ selectedIds' = Append(selectedIds, id)
         /\ alertRaised' = FALSE

\* function toggleSelection(id: string)
toggleSelection(id) ==
    IF Includes(selectedIds, id)
    THEN /\ selectedIds' = FilterOut(selectedIds, id)
         /\ alertRaised' = FALSE
    ELSE IF Len(selectedIds) >= MaxSelected
         THEN /\ alertRaised' = TRUE
              /\ UNCHANGED selectedIds
         ELSE /\ selectedIds' = Append(selectedIds, id)
              /\ alertRaised' = FALSE

\* Plausible slip: switching off forgets to reset the selection state.
onCheckedChange_NoReset(val) ==
    /\ comparisonMode' = val
    /\ UNCHANGED <<selectedIds, showComparison>>

\* Switch onCheckedChange={(val) => { setComparisonMode(val); if (!val) {...} }}
onCheckedChange(val) ==
    /\ comparisonMode' = val
    /\ IF ~val
       THEN /\ selectedIds' = <<>>
            /\ showComparison' = FALSE
       ELSE UNCHANGED <<selectedIds, showComparison>>

\* The user flips the "Enable Comparative Review Mode" switch; the controlled
\* switch reports the negation of its `checked` prop.
SwitchChange ==
    /\ mounted
    /\ onCheckedChange(~comparisonMode)
    /\ alertRaised' = FALSE
    /\ lastEvent' = Event("switch", NoRecord, FALSE)
    /\ UNCHANGED <<selectedRecord, docVars, mounted, scrollVars, auxVars>>

\* Plausible slip: the row handler toggles the selection whatever the mode.
activateRow_AlwaysToggle(id) ==
    /\ toggleSelection(id)
    /\ UNCHANGED <<selectedRecord, docVars>>

\* The body shared by the row's onClick and onKeyDown:
\* if (comparisonMode) toggleSelection(record.id) else onSelectRecord(record)
activateRow(id) ==
    IF comparisonMode
    THEN /\ toggleSelection(id)
         /\ UNCHANGED <<selectedRecord, docVars>>
    ELSE /\ setSelectedRecord(id)
         /\ alertRaised' = FALSE
         /\ UNCHANGED selectedIds

\* <tr onClick={...}>
RowClick(id) ==
    /\ mounted
    /\ activateRow(id)
    /\ lastEvent' = Event("rowClick", id, comparisonMode)
    /\ UNCHANGED <<comparisonMode, showComparison, mounted, scrollVars, auxVars>>

\* <tr onKeyDown={(e) => { if (e.key === "Enter" || e.key === " ") {...} }}>
RowKeyDown(id, key) ==
    /\ mounted
    /\ IF key = "Enter" \/ key = " "
       THEN activateRow(id)
       ELSE /\ alertRaised' = FALSE
            /\ UNCHANGED <<selectedIds, selectedRecord, docVars>>
    /\ lastEvent' = Event(IF key = "Enter" \/ key = " " THEN "rowKeyDown" ELSE "rowOtherKey",
                          id, comparisonMode /\ (key = "Enter" \/ key = " "))
    /\ UNCHANGED <<comparisonMode, showComparison, mounted, scrollVars, auxVars>>

\* <Checkbox onCheckedChange={() => toggleSelection(record.id)}
\*           onClick={(e) => e.stopPropagation()} />, rendered in comparison mode
CheckboxChange(id) ==
    /\ mounted
    /\ comparisonMode
    /\ toggleSelection(id)
    /\ lastEvent' = Event("checkbox", id, TRUE)
    /\ UNCHANGED <<comparisonMode, showComparison, selectedRecord, docVars, mounted, scrollVars, auxVars>>

\* <Button onClick={() => setShowComparison(true)}>Compare Selected</Button>
CompareSelected ==
    /\ mounted
    /\ compareAvailable
    /\ showComparison' = TRUE
    /\ alertRaised' = FALSE
    /\ lastEvent' = Event("compare", NoRecord, FALSE)
    /\ UNCHANGED <<comparisonMode, selectedIds, selectedRecord, docVars, mounted, scrollVars, auxVars>>

\* Plausible slip: clearing the selection leaves showComparison set.
clearSelection_KeepsFlag ==
    /\ selectedIds' = <<>>
    /\ UNCHANGED showComparison

\* () => { setSelectedIds([]); setShowComparison(false); }
clearSelection ==
    /\ selectedIds' = <<>>
    /\ showComparison' = FALSE

\* <button onClick={...}>Clear selection</button>
ClearSelection ==
    /\ mounted
    /\ clearAvailable
    /\ clearSelection
    /\ alertRaised' = FALSE
    /\ lastEvent' = Event("clear", NoRecord, FALSE)
    /\ UNCHANGED <<comparisonMode, selectedRecord, docVars, mounted, scrollVars, auxVars>>

\* <button aria-label="Close comparison" onClick={() => setShowComparison(false)}>
CloseComparison ==
    /\ mounted
    /\ comparisonShown
    /\ showComparison' = FALSE
    /\ alertRaised' = FALSE
    /\ lastEvent' = Event("closeComparison", NoRecord, FALSE)
    /\ UNCHANGED <<comparisonMode, selectedIds, selectedRecord, docVars, mounted, scrollVars, auxVars>>

\* Plausible slip: onClose leaves the record in place.
onClose_Noop == UNCHANGED <<selectedRecord, docVars>>

\* onClose={() => setSelectedRecord(null)}
onClose == setSelectedRecord(NoRecord)

\* <button aria-label="Close panel" onClick={onClose}> of the shown panel
ClosePanel ==
    /\ panelShowing
    /\ onClose
    /\ alertRaised' = FALSE
    /\ lastEvent' = Event("closePanel", NoRecord, FALSE)
    /\ UNCHANGED <<comparisonMode, selectedIds, showComparison, mounted, scrollVars, auxVars>>

\* The backdrop <div onClick={onClose}> of the shown panel
BackdropClick ==
    /\ panelShowing
    /\ onClose
    /\ alertRaised' = FALSE
    /\ lastEvent' = Event("backdropClick", NoRecord, FALSE)
    /\ UNCHANGED <<comparisonMode, selectedIds, showComparison, mounted, scrollVars, auxVars>>

\* A keydown event reaching document while a panel listener is attached:
\* function handleKey(e) { if (e.key === "Escape") onClose(); }
DocumentKeyDown(key) ==
    /\ mounted
    /\ keyListeners > 0
    /\ IF key = "Escape" THEN onClose ELSE UNCHANGED <<selectedRecord, docVars>>
    /\ alertRaised' = FALSE
    /\ lastEvent' = Event(IF key = "Escape" THEN "escapeKey" ELSE "otherKey",
                          NoRecord, FALSE)
    /\ UNCHANGED <<comparisonMode, selectedIds, showComparison, mounted, scrollVars, auxVars>>

\* The page is unmounted: React runs the cleanup of every mounted effect
\* (the panel's, `for (const obs of observers) obs.disconnect()` of the
\* tracker and `observer.disconnect()` of every FadeIn block).
Unmount ==
    /\ mounted
    /\ mounted' = FALSE
    /\ LET doc == [listeners |-> keyListeners, overflow |-> bodyOverflow]
           after == IF selectedRecord # NoRecord THEN panelEffectCleanup(doc) ELSE doc
       IN  /\ keyListeners' = after.listeners
           /\ bodyOverflow' = after.overflow
    /\ alertRaised' = FALSE
    /\ lastEvent' = Event("unmount", NoRecord, FALSE)
    /\ sectionObservers' = [id \in DOMAIN sectionObservers |-> FALSE]
    /\ fadeObservers' = {}
    /\ UNCHANGED <<comparisonMode, selectedIds, showComparison, selectedRecord,
                   overflowAtOpen, activeId, trackerThrew, domSections, revealed,
                   auxVars>>

\* The element of section `id` crosses the 0.2 threshold of the viewport, with
\* the given isIntersecting flags.  The observer of that section, if the
\* tracker created one and it is connected, runs its callback; an element
\* that no observer observes notifies nobody.
SectionIntersection(id, entries) ==
    /\ mounted
    /\ documentHasElement(id)
    /\ activeId' = IF id \in DOMAIN sectionObservers /\ sectionObservers[id]
                   THEN sectionCallback(id, entries, activeId)
                   ELSE activeId
    /\ alertRaised' = FALSE
    /\ lastEvent' = ScrollEvent(IF AnyIntersecting(entries)
                                THEN "sectionEnter" ELSE "sectionLeave",
                                id, NoBlock)
    /\ lastIntersecting' =
           IF id \in DOMAIN sectionObservers /\ sectionObservers[id]
              /\ AnyIntersecting(entries)
           THEN id ELSE lastIntersecting
    /\ UNCHANGED <<comparisonMode, selectedIds, showComparison, selectedRecord,
                   docVars, mounted, sectionObservers, trackerThrew,
                   domSections, revealed, fadeObservers,
                   mobileOpen, activation, recordData, view>>

\* The observer of FadeIn block `b`, while connected, delivers entries for
\* the block to its callback.
FadeIntersection(b, entries) ==
    /\ mounted
    /\ b \in fadeObservers
    /\ revealed' = [revealed EXCEPT ![b] = fadeCallback(entries, revealed[b])]
    /\ alertRaised' = FALSE
    /\ lastEvent' = ScrollEvent(IF AnyIntersecting(entries)
                                THEN "fadeEnter" ELSE "fadeLeave",
                                "", b)
    /\ UNCHANGED <<comparisonMode, selectedIds, showComparison, selectedRecord,
                   docVars, mounted, activeId, sectionObservers, trackerThrew,
                   domSections, fadeObservers, auxVars>>

\* Plausible slip: the click handler marks the clicked link active itself.
handleLinkClick_SetsActive(id, current) ==
    [mobileOpen |-> FALSE, activeId |-> id]

\* handleLinkClick: e.preventDefault(); setMobileOpen(false);
\* el.scrollIntoView(...).  It never calls setActiveId: the scrolling it
\* starts is reported later by the observers, on the host's schedule.
handleLinkClick(id, current) ==
    [mobileOpen |-> FALSE, activeId |-> current]

\* <a href={href} onClick={(e) => handleLinkClick(e, href)}> of a
\* navigation link (desktop list and mobile menu).
NavLinkClick(id) ==
    /\ mounted
    /\ LET after == handleLinkClick(id, activeId)
       IN  /\ mobileOpen' = after.mobileOpen
           /\ activeId' = after.activeId
    /\ alertRaised' = FALSE
    /\ lastEvent' = ScrollEvent("navClick", id, NoBlock)
    /\ UNCHANGED <<comparisonMode, selectedIds, showComparison, selectedRecord,
                   docVars, mounted, sectionObservers, trackerThrew,
                   domSections, revealed, fadeObservers, lastIntersecting,
                   activation, recordData, view>>

\* The mobile menu button: onClick={() => setMobileOpen((v) => !v)}.
MobileToggle ==
    /\ mounted
    /\ mobileOpen' = ~mobileOpen
    /\ alertRaised' = FALSE
    /\ lastEvent' = ScrollEvent("mobileToggle", NoSection, NoBlock)
    /\ UNCHANGED <<comparisonMode, selectedIds, showComparison, selectedRecord,
                   docVars, mounted, scrollVars, lastIntersecting,
                   activation, recordData, view>>

Next ==
    \/ SwitchChange
    \/ \E id \in RecordIds : RowClick(id)
    \/ \E id \in RecordIds : \E key \in Keys : RowKeyDown(id, key)
    \/ \E id \in RecordIds : CheckboxChange(id)
    \/ CompareSelected
    \/ ClearSelection
    \/ CloseComparison
    \/ ClosePanel
    \/ BackdropClick
    \/ \E key \in PanelKeys : DocumentKeyDown(key)
    \/ Unmount

Spec == Init /\ [][Next]_vars

\* The dashboard together with the active-section tracker of the navigation.
PageNext ==
    \/ Next
    \/ \E id \in Range(SECTION_IDS) : \E entries \in EntryLists :
           SectionIntersection(id, entries)

PageSpec == Init /\ [][PageNext]_vars

\* The two scroll hooks alone, mounted in a document that has the elements
\* of any subset of the configured sections.
HookInit ==
    /\ comparisonMode = FALSE
    /\ selectedIds = <<>>
    /\ showComparison = FALSE
    /\ selectedRecord = NoRecord
    /\ alertRaised = FALSE
    /\ lastEvent = [op |-> "none", id |-> NoRecord, toggled |-> FALSE,
                    wasSelected |-> FALSE, wasShown |-> FALSE,
                    prevRecord |-> NoRecord, section |-> "", block |-> NoBlock]
    /\ mounted = TRUE
    /\ keyListeners = 0
    /\ bodyOverflow = OverflowCleared
    /\ overflowAtOpen = bodyOverflow
    /\ \E dom \in SUBSET (StaticElementIds \cap Range(SECTION_IDS)) :
           InitDocument(dom)
    /\ sectionObservers = useActiveSectionEffect(SECTION_IDS).observers
    /\ trackerThrew = useActiveSectionEffect(SECTION_IDS).threw
    /\ InitAux

HookNext ==
    \/ \E id \in Range(SECTION_IDS) : \E entries \in EntryLists :
           SectionIntersection(id, entries)
    \/ \E b \in FadeBlocks : \E entries \in EntryLists :
           FadeIntersection(b, entries)
    \/ \E id \in Range(SECTION_IDS) : NavLinkClick(id)
    \/ MobileToggle
    \/ Unmount

HookSpec == HookInit /\ [][HookNext]_vars

(***************************************************************************)
(* Helper of the properties                                                *)
(***************************************************************************)

\* Position of x in a sequence without duplicates that contains x.
IndexOf(s, x) == CHOOSE i \in 1..Len(s) : s[i] = x

(***************************************************************************)
(* The presentational helpers: duration formatter, badges, fields          *)
(***************************************************************************)

\* Thresholds of the duration formatter: a month-equivalent and a
\* year-equivalent number of days.
MonthDays == 30
YearDays == 365

\* The dates a record may carry: none, a string that is not a date, or a
\* date a number of days before today.
DaySamples == {0, MonthDays - 1, MonthDays, YearDays - 1, YearDays, YearDays + MonthDays}
DateInputs ==
    {[kind |-> "missing", daysAgo |-> 0], [kind |-> "invalid", daysAgo |-> 0]}
    \cup {[kind |-> "date", daysAgo |-> d] : d \in DaySamples}

\* Values of the three badge fields: the enumeration of each, a value outside
\* it, and the name of a property every object literal inherits.
StatusInputs == {"Scheduled", "Overdue", "Completed", "Pending", "", "constructor"}
AlertInputs == {"stable", "review", "attention", "critical", "constructor"}
RiskInputs == {"Low", "Moderate", "High", "Critical"}

RecordInputs ==
    [surgeryDate : DateInputs, followUpStatus : StatusInputs,
     alertLevel : AlertInputs, riskLevel : RiskInputs]

\* The placeholder dash (an em dash in the page) and the text 'Invalid Date' of an unparsed date.
Dash == [text |-> "-", n |-> 0]
InvalidDate == [text |-> "Invalid Date", n |-> 0]

\* getImplantDuration(surgeryDate): the elapsed time in the coarsest sensible
\* unit, the placeholder dash on a missing or invalid date.
getImplantDuration(d) ==
    IF d.kind # "date" THEN Dash
    ELSE IF d.daysAgo < MonthDays THEN [text |-> "days", n |-> d.daysAgo]
    ELSE IF d.daysAgo < YearDays THEN [text |-> "months", n |-> d.daysAgo \div MonthDays]
    ELSE [text |-> "years", n |-> d.daysAgo \div YearDays]

\* String(r.surgeryDate): the stored value as text.
StringOfDate(d) ==
    [text |-> IF d.kind = "missing" THEN "undefined"
              ELSE IF d.kind = "invalid" THEN "not-a-date" ELSE "date",
     n |-> d.daysAgo]

\* The value of a property that does not exist.
Undefined == "undefined"

\* Properties every object literal inherits from Object.prototype.
ObjectPrototypeKeys == {"constructor", "toString", "valueOf", "hasOwnProperty"}

\* obj[key] on an object literal: the own property, else an inherited
\* property of Object.prototype (a function), else undefined.
Lookup(obj, key) ==
    IF key \in DOMAIN obj THEN [kind |-> "own", value |-> obj[key]]
    ELSE IF key \in ObjectPrototypeKeys THEN [kind |-> "inherited", value |-> <<>>]
    ELSE [kind |-> "undefined", value |-> <<>>]

\* c.field of a value found by a lookup that is not undefined: a style entry
\* has the field, an inherited function does not.
Field(c, f) == IF c.kind = "own" THEN c.value[f] ELSE Undefined

\* The render of a component that threw a TypeError (property of undefined).
Thrown ==
    [threw |-> TRUE, bg |-> Undefined, border |-> Undefined,
     color |-> Undefined, text |-> Undefined]

\* The lookup table `config` of AlertBadge.
AlertConfig ==
    [stable |-> [dot |-> "#16a34a", text |-> "Stable Monitoring",
                 bg |-> "rgba(22,163,74,0.07)", border |-> "rgba(22,163,74,0.25)",
                 color |-> "#15803d"],
     review |-> [dot |-> "#d97706", text |-> "Review Pending",
                 bg |-> "rgba(217,119,6,0.07)", border |-> "rgba(217,119,6,0.25)",
                 color |-> "#b45309"],
     attention |-> [dot |-> "#dc2626", text |-> "Clinical Attention",
                    bg |-> "rgba(220,38,38,0.07)", border |-> "rgba(220,38,38,0.25)",
                    color |-> "#b91c1c"]]

\* function AlertBadge({ level }): const c = config[level]; then c.bg,
\* c.border, c.color, c.dot, c.text.
AlertBadge(level) ==
    LET c == Lookup(AlertConfig, level)
    IN  IF c.kind = "undefined" THEN Thrown
        ELSE [threw |-> FALSE, bg |-> Field(c, "bg"), border |-> Field(c, "border"),
              color |-> Field(c, "color"), text |-> Field(c, "text")]

\* The lookup table `map` of StatusBadge.
StatusMap ==
    [Scheduled |-> [bg |-> "rgba(67,122,168,0.07)", border |-> "rgba(67,122,168,0.25)",
                    color |-> "var(--thodar-blue)"],
     Overdue |-> [bg |-> "rgba(220,38,38,0.07)", border |-> "rgba(220,38,38,0.25)",
                  color |-> "#b91c1c"],
     Completed |-> [bg |-> "rgba(22,163,74,0.07)", border |-> "rgba(22,163,74,0.25)",
                    color |-> "#15803d"]]

\* function StatusBadge({ status }): const c = map[status] ?? map.Scheduled;
\* the badge shows {status} itself.
StatusBadge(status) ==
    LET found == Lookup(StatusMap, status)
        c == IF found.kind = "undefined" THEN Lookup(StatusMap, "Scheduled") ELSE found
    IN  [threw |-> FALSE, bg |-> Field(c, "bg"), border |-> Field(c, "border"),
         color |-> Field(c, "color"), text |-> status]

\* The lookup table `map` of RiskBadge.
RiskMap ==
    [Low |-> [bg |-> "rgba(22,163,74,0.07)", border |-> "rgba(22,163,74,0.25)",
              color |-> "#15803d"],
     Moderate |-> [bg |-> "rgba(217,119,6,0.07)", border |-> "rgba(217,119,6,0.25)",
                   color |-> "#b45309"],
     High |-> [bg |-> "rgba(220,38,38,0.07)", border |-> "rgba(220,38,38,0.25)",
               color |-> "#b91c1c"]]

\* function RiskBadge({ level }): const c = map[level]; the badge shows
\* {level} itself.
RiskBadge(level) ==
    LET c == Lookup(RiskMap, level)
    IN  IF c.kind = "undefined" THEN Thrown
        ELSE [threw |-> FALSE, bg |-> Field(c, "bg"), border |-> Field(c, "border"),
              color |-> Field(c, "color"), text |-> level]

\* function DetailField({ label, value }): {value || dash}
DetailField(value) == IF value.text = "" THEN Dash ELSE value

\* Plausible slip: the comparison table shows the stored date, without
\* replacing it by the duration.
comparisonCell_NoDurationOverride(key, r) ==
    IF key = "alertLevel" THEN AlertBadge(r.alertLevel)
    ELSE IF key = "followUpStatus" THEN StatusBadge(r.followUpStatus)
    ELSE StringOfDate(r.surgeryDate)

\* A cell of the comparison table: let displayVal = String(r[key]);
\* if (key === "surgeryDate") displayVal = getImplantDuration(r.surgeryDate);
\* if (key === "alertLevel") displayVal = <AlertBadge .../>;
\* if (key === "followUpStatus") displayVal = <StatusBadge .../>;
comparisonCell(key, r) ==
    IF key = "alertLevel" THEN AlertBadge(r.alertLevel)
    ELSE IF key = "followUpStatus" THEN StatusBadge(r.followUpStatus)
    ELSE IF key = "surgeryDate" THEN getImplantDuration(r.surgeryDate)
    ELSE StringOfDate(r.surgeryDate)

\* A row of the registry table: duration cell, StatusBadge, AlertBadge.
RenderTableRow ==
    /\ mounted
    /\ view' = [place |-> "table",
                duration |-> getImplantDuration(recordData.surgeryDate),
                status |-> StatusBadge(recordData.followUpStatus),
                alert |-> AlertBadge(recordData.alertLevel),
                risk |-> NoBadge]
    /\ UNCHANGED <<comparisonMode, selectedIds, showComparison, selectedRecord,
                   alertRaised, lastEvent, docVars, mounted, scrollVars,
                   lastIntersecting, mobileOpen, activation, recordData>>

\* The detail panel of a record: the Implant Duration field and RiskBadge.
RenderDetailPanel ==
    /\ mounted
    /\ view' = [place |-> "panel",
                duration |-> DetailField(getImplantDuration(recordData.surgeryDate)),
                status |-> NoBadge,
                alert |-> NoBadge,
                risk |-> RiskBadge(recordData.riskLevel)]
    /\ UNCHANGED <<comparisonMode, selectedIds, showComparison, selectedRecord,
                   alertRaised, lastEvent, docVars, mounted, scrollVars,
                   lastIntersecting, mobileOpen, activation, recordData>>

\* The column of a record in the comparison table.
RenderComparisonColumn ==
    /\ mounted
    /\ view' = [place |-> "comparison",
                duration |-> comparisonCell("surgeryDate", recordData),
                status |-> comparisonCell("followUpStatus", recordData),
                alert |-> comparisonCell("alertLevel", recordData),
                risk |-> NoBadge]
    /\ UNCHANGED <<comparisonMode, selectedIds, showComparison, selectedRecord,
                   alertRaised, lastEvent, docVars, mounted, scrollVars,
                   lastIntersecting, mobileOpen, activation, recordData>>

\* The page showing a record with any date and any badge values.
RenderInit ==
    /\ comparisonMode = FALSE
    /\ selectedIds = <<>>
    /\ showComparison = FALSE
    /\ selectedRecord = NoRecord
    /\ alertRaised = FALSE
    /\ lastEvent = [op |-> "none", id |-> NoRecord, toggled |-> FALSE,
                    wasSelected |-> FALSE, wasShown |-> FALSE,
                    prevRecord |-> NoRecord, section |-> "", block |-> NoBlock]
    /\ mounted = TRUE
    /\ keyListeners = 0
    /\ bodyOverflow = OverflowCleared
    /\ overflowAtOpen = bodyOverflow
    /\ InitDocument(StaticElementIds)
    /\ sectionObservers = useActiveSectionEffect(SECTION_IDS).observers
    /\ trackerThrew = useActiveSectionEffect(SECTION_IDS).threw
    /\ lastIntersecting = NoSection
    /\ mobileOpen = FALSE
    /\ activation = NoActivation
    /\ recordData \in RecordInputs
    /\ view = NoView

RenderNext ==
    \/ RenderTableRow
    \/ RenderDetailPanel
    \/ RenderComparisonColumn

RenderSpec == RenderInit /\ [][RenderNext]_vars

(***************************************************************************)
(* The checkbox of a row, activated by mouse or keyboard                   *)
(***************************************************************************)

\* The user clicks the checkbox of a row with the mouse: the checkbox runs
\* onCheckedChange, and onClick's stopPropagation keeps the click from the
\* row's onClick.
CheckboxClick(id) ==
    /\ mounted
    /\ comparisonMode
    /\ toggleSelection(id)
    /\ activation' = [id |-> id, wasSelected |-> Includes(selectedIds, id),
                      calls |-> 1, pending |-> FALSE]
    /\ lastEvent' = Event("checkboxClick", id, TRUE)
    /\ UNCHANGED <<comparisonMode, showComparison, selectedRecord, docVars,
                   mounted, scrollVars, lastIntersecting, mobileOpen,
                   recordData, view>>

\* The user presses a key while the checkbox of a row has the focus.  The
\* checkbox stops only the propagation of click events, so the keydown
\* bubbles to the row's onKeyDown, which runs the row's body for Enter and
\* Space.  A checkbox is activated by Space when the key is released (the
\* row's handler does not call preventDefault), not by Enter.
CheckboxKeyDown(id, key) ==
    /\ mounted
    /\ comparisonMode
    /\ IF key = "Enter" \/ key = " "
       THEN activateRow(id)
       ELSE /\ alertRaised' = FALSE
            /\ UNCHANGED <<selectedIds, selectedRecord, docVars>>
    /\ activation' = [id |-> id, wasSelected |-> Includes(selectedIds, id),
                      calls |-> IF key = "Enter" \/ key = " " THEN 1 ELSE 0,
                      pending |-> key = " "]
    /\ lastEvent' = Event(IF key = "Enter" \/ key = " "
                          THEN "checkboxKeyDown" ELSE "checkboxOtherKey",
                          id, key = "Enter" \/ key = " ")
    /\ UNCHANGED <<comparisonMode, showComparison, mounted, scrollVars,
                   lastIntersecting, mobileOpen, recordData, view>>

\* The Space key is released: the checkbox is clicked and runs
\* onCheckedChange={() => toggleSelection(record.id)}.
CheckboxKeyUp ==
    /\ mounted
    /\ comparisonMode
    /\ activation.pending
    /\ toggleSelection(activation.id)
    /\ activation' = [activation EXCEPT !.calls = @ + 1, !.pending = FALSE]
    /\ lastEvent' = Event("checkboxKeyUp", activation.id, TRUE)
    /\ UNCHANGED <<comparisonMode, showComparison, selectedRecord, docVars,
                   mounted, scrollVars, lastIntersecting, mobileOpen,
                   recordData, view>>

\* The comparison controls with the checkbox driven by mouse and keyboard.
\* Nothing else is delivered between the press and the release of Space.
CheckboxNext ==
    \/ ~activation.pending /\ SwitchChange
    \/ ~activation.pending /\ CompareSelected
    \/ ~activation.pending /\ ClearSelection
    \/ ~activation.pending /\ CloseComparison
    \/ \E id \in RecordIds : ~activation.pending /\ CheckboxClick(id)
    \/ \E id \in RecordIds : \E key \in Keys :
           ~activation.pending /\ CheckboxKeyDown(id, key)
    \/ CheckboxKeyUp

CheckboxSpec == Init /\ [][CheckboxNext]_vars

(***************************************************************************)
(* Properties of the comparison-selection state machine                    *)
(***************************************************************************)

\* C1: in every reachable state the selection holds at most 3 record
\* identifiers.
C1_SelectionAtMostThree == Len(selectedIds) <= 3

\* C1 witness: the cap was hit, a fourth record was toggled and the selection
\* still holds three identifiers.
C1_Witness ==
    /\ Len(selectedIds) = 3
    /\ lastEvent.toggled /\ ~lastEvent.wasSelected /\ alertRaised

\* C2: a toggle of a record that is not selected while exactly 3 records are
\* selected raises the "maximum of 3" notice and leaves the selection, the
\* comparison-mode flag and the visibility of the comparison table unchanged.
C2_FourthToggleRejected ==
    [][\A id \in RecordIds :
          ( /\ lastEvent'.toggled /\ lastEvent'.id = id
            /\ ~Includes(selectedIds, id)
            /\ Len(selectedIds) = 3 )
          => /\ alertRaised'
             /\ selectedIds' = selectedIds
             /\ comparisonMode' = comparisonMode
             /\ showComparison' = showComparison
             /\ comparisonShown' = comparisonShown]_vars

\* C2 witness: a row click on a fourth record was rejected while the
\* comparison table of three records was shown.
C2_Witness ==
    /\ lastEvent.op = "rowClick" /\ lastEvent.toggled
    /\ ~lastEvent.wasSelected /\ lastEvent.wasShown
    /\ alertRaised
    /\ Len(selectedIds) = 3 /\ ~Includes(selectedIds, lastEvent.id)
    /\ comparisonShown

\* C3 (as claimed): whenever the comparison table is shown, its record columns
\* are in the order in which the rows were selected.
C3_ColumnsInSelectionOrder ==
    comparisonShown => SubSeq(comparisonColumns, 2, Len(comparisonColumns)) = selectedIds

\* C4: whenever the comparison table is shown it has the attribute-label
\* column followed by one column per selected record: as many record columns
\* as the selection has entries, and the columns are exactly the selected
\* records.
C4_OneColumnPerSelectedRecord ==
    comparisonShown =>
        /\ comparisonColumns[1] = AttributeColumn
        /\ Len(comparisonColumns) = 1 + Len(selectedIds)
        /\ {comparisonColumns[i] : i \in 2..Len(comparisonColumns)} = Range(selectedIds)
        /\ Cardinality(Range(selectedIds)) = Len(selectedIds)

\* C4 witness: two distinct rows were selected, compare was pressed and the
\* table is shown with the label column and two record columns.
C4_Witness ==
    /\ lastEvent.op = "compare"
    /\ comparisonShown
    /\ Len(selectedIds) = 2
    /\ Len(comparisonColumns) = 3

\* C5 (as claimed): the comparison table goes from not shown to shown only in
\* a step of the compare action taken in the ready state; in particular no
\* toggle of a row or checkbox makes it appear.
C5_ShownOnlyByCompare ==
    [][(~comparisonShown /\ comparisonShown')
          => /\ lastEvent'.op = "compare"
             /\ ~lastEvent'.toggled
             /\ compareAvailable]_vars

\* C6 (as claimed): deselecting one of three selected records while the
\* comparison table is shown leaves the other two selected and the comparison
\* table no longer shown.
C6_DeselectFromThreeHidesTable ==
    [][\A id \in RecordIds :
          ( /\ lastEvent'.toggled /\ lastEvent'.id = id
            /\ Includes(selectedIds, id)
            /\ Len(selectedIds) = 3
            /\ comparisonShown )
          => /\ Range(selectedIds') = Range(selectedIds) \ {id}
             /\ Len(selectedIds') = 2
             /\ ~comparisonShown']_vars

\* C7: a toggle of a record that is selected removes exactly that record and
\* keeps every other selected record (in the same relative order); if fewer
\* than 2 records remain, the comparison table is not shown and the compare
\* action is not available.
C7_DeselectRemovesExactlyThatRecord ==
    [][\A id \in RecordIds :
          ( /\ lastEvent'.toggled /\ lastEvent'.id = id
            /\ Includes(selectedIds, id) )
          => /\ Range(selectedIds') = Range(selectedIds) \ {id}
             /\ Len(selectedIds') = Len(selectedIds) - 1
             /\ \A x, y \in Range(selectedIds') :
                   IndexOf(selectedIds, x) < IndexOf(selectedIds, y)
                       => IndexOf(selectedIds', x) < IndexOf(selectedIds', y)
             /\ ~alertRaised'
             /\ (Len(selectedIds') < 2
                    => ~comparisonShown' /\ ~compareAvailable')]_vars

\* C7 witness: a record was deselected while the comparison table was shown
\* and one record is left.
C7_Witness ==
    /\ lastEvent.toggled /\ lastEvent.wasSelected /\ lastEvent.wasShown
    /\ Len(selectedIds) = 1
    /\ ~Includes(selectedIds, lastEvent.id)
    /\ ~comparisonShown /\ ~compareAvailable

\* C8 (as claimed): a toggle of a record that is not selected while fewer than
\* 3 are selected adds it, and whenever 2 or more are then selected the compare
\* action is available and the comparison table is hidden, whatever the state
\* before the toggle.
C8_AddRecomputesStateByCount ==
    [][\A id \in RecordIds :
          ( /\ lastEvent'.toggled /\ lastEvent'.id = id
            /\ ~Includes(selectedIds, id)
            /\ Len(selectedIds) < 3 )
          => /\ selectedIds' = Append(selectedIds, id)
             /\ (Len(selectedIds') >= 2
                    => compareAvailable' /\ ~comparisonShown')]_vars

\* C9: turning comparison mode off, from any state in which it is on, gives
\* comparison mode off, an empty selection and the comparison table hidden.
C9_SwitchOffResets ==
    [][(lastEvent'.op = "switch" /\ comparisonMode)
          => /\ ~comparisonMode'
             /\ selectedIds' = <<>>
             /\ ~showComparison'
             /\ ~comparisonShown']_vars

\* C9 witness: comparison mode was turned off while the comparison table was
\* shown.
C9_Witness ==
    /\ lastEvent.op = "switch" /\ lastEvent.wasShown
    /\ ~comparisonMode
    /\ selectedIds = <<>>

\* C10: turning comparison mode on, from any reachable state in which it is
\* off, gives comparison mode on with an empty selection, the comparison table
\* hidden and the compare action not available.
C10_SwitchOnStartsCollecting ==
    [][(lastEvent'.op = "switch" /\ ~comparisonMode)
          => /\ comparisonMode'
             /\ selectedIds' = <<>>
             /\ ~showComparison'
             /\ ~comparisonShown'
             /\ ~compareAvailable']_vars

\* C10 witness: comparison mode was turned on from an inactive state in which
\* a row had been activated (a record is open in the detail panel), and the
\* selection is empty with the comparison table hidden.
C10_Witness ==
    /\ lastEvent.op = "switch"
    /\ comparisonMode
    /\ selectedIds = <<>> /\ ~showComparison
    /\ selectedRecord # NoRecord

\* C11: the clear-selection action, from any state in which comparison mode is
\* on, empties the selection, hides the comparison table and leaves comparison
\* mode on.
C11_ClearSelectionResets ==
    [][(lastEvent'.op = "clear")
          => /\ comparisonMode /\ comparisonMode'
             /\ selectedIds' = <<>>
             /\ ~showComparison'
             /\ ~comparisonShown' /\ ~compareAvailable']_vars

\* C11 witness: the selection was cleared while the comparison table was
\* shown.
C11_Witness ==
    /\ lastEvent.op = "clear" /\ lastEvent.wasShown
    /\ comparisonMode
    /\ selectedIds = <<>> /\ ~showComparison

(***************************************************************************)
(* Properties of the detail panel                                          *)
(***************************************************************************)

\* The three close triggers of the panel.
CloseOps == {"closePanel", "backdropClick", "escapeKey"}

\* C12: activating a row (click, Enter or Space) for record X while comparison
\* mode is off opens X in the detail panel, and the single slot holds either
\* no record or one record of the registry.
C12_RowActivationOpensRecord ==
    [][\A id \in RecordIds :
          ( /\ lastEvent'.op \in {"rowClick", "rowKeyDown"}
            /\ lastEvent'.id = id
            /\ ~comparisonMode )
          => /\ selectedRecord' = id
             /\ panelShowing'
             /\ selectedRecord' \in RecordIds]_vars

\* C12 witness: a row was activated from the keyboard while another record
\* was open, and the panel now shows the activated record.
C12_Witness ==
    /\ lastEvent.op = "rowKeyDown" /\ ~lastEvent.toggled
    /\ lastEvent.prevRecord \notin {NoRecord, lastEvent.id}
    /\ selectedRecord = lastEvent.id
    /\ panelShowing

\* C13: while the panel shows a record, the close control, a click on the
\* backdrop and an Escape key press each return the detail state to none; the
\* Escape trigger is there because a key listener is attached whenever the
\* panel shows.
C13_CloseTriggersReturnToNone ==
    [][/\ (panelShowing /\ lastEvent'.op \in CloseOps)
             => (selectedRecord' = NoRecord /\ ~panelShowing')
       /\ panelShowing' => keyListeners' > 0]_vars

\* C13 witness: an Escape key press closed the panel.
C13_Witness ==
    /\ lastEvent.op = "escapeKey"
    /\ lastEvent.prevRecord # NoRecord
    /\ selectedRecord = NoRecord

\* C14: the scroll lock (body overflow hidden) is present exactly when the
\* panel is showing a record, also after the effect was re-run for a new
\* onClose and after unmount.
C14_ScrollLockIffShowing == scrollLocked <=> panelShowing

\* C14 witness: another record was opened while one was showing (the parent
\* re-rendered and the effect re-ran) and the lock is present.
C14_Witness ==
    /\ lastEvent.prevRecord \notin {NoRecord, selectedRecord}
    /\ panelShowing
    /\ scrollLocked

\* C15 (as claimed): after the panel was closed or unmounted, the body overflow
\* value equals the value it had immediately before the panel was opened.
C15_OverflowRestoredExactly ==
    ( /\ ~panelShowing
      /\ lastEvent.prevRecord # NoRecord
      /\ lastEvent.op \in CloseOps \cup {"unmount"} )
    => bodyOverflow = overflowAtOpen

\* C16: the number of attached panel key listeners is 1 while the panel shows
\* a record and 0 while it shows none.
C16_OneListenerIffShowing ==
    keyListeners = IF panelShowing THEN 1 ELSE 0

\* C16 witness: another record was opened from the keyboard while one was
\* showing (the effect was cleaned up and set up again) and exactly one
\* listener is attached.
C16_Witness ==
    /\ lastEvent.op = "rowKeyDown"
    /\ lastEvent.prevRecord \notin {NoRecord, selectedRecord}
    /\ panelShowing
    /\ keyListeners = 1

(***************************************************************************)
(* Properties of the scroll hooks                                          *)
(***************************************************************************)

\* C17: the tracker holds exactly one active identifier: it starts as the
\* first identifier of the navigation list ("hero") and in every reachable
\* state it is an identifier of the list, so that exactly one navigation entry
\* is highlighted.
C17_ActiveIdIsOneOfTheSections ==
    /\ activeId \in Range(SECTION_IDS)
    /\ Cardinality({i \in 1..Len(SECTION_IDS) : SECTION_IDS[i] = activeId}) = 1
    /\ (lastEvent.op = "none" => activeId = "hero" /\ activeId = SECTION_IDS[1])

\* C17 witness: a section other than the first entered the threshold and is
\* now the active one.
C17_Witness ==
    /\ lastEvent.op = "sectionEnter"
    /\ activeId = lastEvent.section
    /\ activeId # SECTION_IDS[1]

\* C18 (as claimed): when the element of any section of the navigation map
\* enters the visibility threshold, the active identifier becomes that section,
\* also for the comparison panel, whose element is rendered after mount.
C18_EnteringSectionBecomesActive ==
    [][\A id \in Range(SECTION_IDS) :
          (lastEvent'.op = "sectionEnter" /\ lastEvent'.section = id)
              => activeId' = id]_vars

\* C19: with zero sections registered (no element was found, no observer was
\* created) the tracker reports the first configured identifier in every
\* state up to and after unmount, and its effect did not throw.
C19_NoSectionsKeepsFirstId ==
    (DOMAIN sectionObservers = {})
        => (activeId = SECTION_IDS[1] /\ ~trackerThrew)

\* C19 witness: the tracker lived without any observer until the page was
\* unmounted.
C19_Witness ==
    /\ DOMAIN sectionObservers = {}
    /\ domSections = {}
    /\ lastEvent.op = "unmount" /\ ~mounted
    /\ activeId = SECTION_IDS[1]

\* C20: a block that has been revealed stays revealed after every later
\* notification, also one that reports the block as no longer intersecting.
C20_RevealNeverReverses ==
    [][\A b \in FadeBlocks : revealed[b] => revealed'[b]]_vars

\* C20 witness: a revealed block was notified that it left the viewport and is
\* still revealed.
C20_Witness ==
    /\ lastEvent.op = "fadeLeave"
    /\ lastEvent.block \in FadeBlocks
    /\ revealed[lastEvent.block]

\* C21 (as claimed): once a block has been revealed by its first intersecting
\* notification, its observer no longer observes it.
C21_ObservationReleasedOnceRevealed ==
    \A b \in FadeBlocks : revealed[b] => b \notin fadeObservers

\* C25: after the page was unmounted, in any state and also while the detail
\* panel was showing, no observer of the tracker or of a FadeIn block is
\* connected, no panel key listener is attached and the scroll lock is absent.
C25_UnmountReleasesEverything ==
    ~mounted =>
        /\ \A id \in DOMAIN sectionObservers : ~sectionObservers[id]
        /\ fadeObservers = {}
        /\ keyListeners = 0
        /\ ~scrollLocked

\* C25 witness: the page was unmounted while the detail panel was showing a
\* record and observers had been created.
C25_Witness ==
    /\ ~mounted /\ lastEvent.op = "unmount"
    /\ lastEvent.prevRecord # NoRecord
    /\ DOMAIN sectionObservers # {}
    /\ keyListeners = 0

\* C26: the active identifier is the section of the most recently processed
\* notification entry that reported intersecting, or the first identifier if
\* no such entry has been processed.
C26_LastObservedWins ==
    activeId = IF lastIntersecting = NoSection THEN SECTION_IDS[1]
               ELSE lastIntersecting

\* C26 witness: after a section became active, another section reported that
\* it is not intersecting, and the earlier one is still active.
C26_Witness ==
    /\ lastEvent.op = "sectionLeave"
    /\ lastIntersecting # NoSection
    /\ lastEvent.section # lastIntersecting
    /\ activeId = lastIntersecting
    /\ activeId # SECTION_IDS[1]

\* C27: a row activation (click, Enter or Space on the row) in comparison mode
\* only toggles the selection and never changes the open record; with
\* comparison mode off it only sets the open record and never changes the
\* selection or the visibility of the comparison table.
C27_RowActivationRoutedByMode ==
    [][\A id \in RecordIds :
          (lastEvent'.op \in {"rowClick", "rowKeyDown"} /\ lastEvent'.id = id)
          => /\ comparisonMode' = comparisonMode
             /\ showComparison' = showComparison
             /\ IF comparisonMode
                THEN /\ lastEvent'.toggled
                     /\ selectedRecord' = selectedRecord
                     /\ keyListeners' = keyListeners
                     /\ bodyOverflow' = bodyOverflow
                ELSE /\ selectedRecord' = id
                     /\ selectedIds' = selectedIds
                     /\ comparisonShown' = comparisonShown
                     /\ ~alertRaised']_vars

\* C27 witness: a row was clicked in comparison mode while a record was open
\* in the detail panel; the selection changed and the open record did not.
C27_Witness ==
    /\ lastEvent.op = "rowClick" /\ lastEvent.toggled
    /\ comparisonMode
    /\ lastEvent.prevRecord # NoRecord
    /\ selectedRecord = lastEvent.prevRecord
    /\ Includes(selectedIds, lastEvent.id) # lastEvent.wasSelected

\* C28: the selection holds no identifier twice and only identifiers of
\* registry records, so the number of records derived for the comparison
\* equals the length of the selection.
C28_SelectionIsDuplicateFree ==
    /\ \A i, j \in 1..Len(selectedIds) : selectedIds[i] = selectedIds[j] => i = j
    /\ Range(selectedIds) \subseteq RecordIds
    /\ Len(selectedRecords) = Len(selectedIds)

\* C28 witness: three records are selected in an order that is not the
\* registry order, after one of them was deselected and selected again.
C28_Witness ==
    /\ Len(selectedIds) = 3
    /\ selectedIds[3] < selectedIds[1]
    /\ lastEvent.toggled /\ ~lastEvent.wasSelected /\ ~alertRaised
    /\ Len(selectedRecords) = 3

\* C30: a notification without an intersecting entry never changes the active
\* identifier, and neither does a click on a navigation link; the active
\* identifier changes only in a step that processes an intersecting entry, to
\* that entry's section.
C30_ActiveIdChangesOnlyOnIntersecting ==
    [][/\ lastEvent'.op \in {"sectionLeave", "navClick"} => activeId' = activeId
       /\ activeId' # activeId =>
              /\ lastEvent'.op = "sectionEnter"
              /\ activeId' = lastEvent'.section]_vars

\* C30 witness: a link to another section was clicked after the active
\* section had been set by a notification; the active identifier still names
\* the earlier section.
C30_Witness ==
    /\ lastEvent.op = "navClick"
    /\ lastEvent.section # activeId
    /\ lastIntersecting = activeId
    /\ ~mobileOpen

\* C29 (as claimed): one activation of a row's checkbox, by a mouse click or
\* by Space or Enter on the focused checkbox, calls toggleSelection once and
\* changes the record's membership exactly once (unless the cap rejects it).
C29_CheckboxActivationTogglesOnce ==
    (/\ lastEvent.op \in {"checkboxClick", "checkboxKeyDown", "checkboxKeyUp"}
     /\ ~activation.pending)
    => /\ activation.calls = 1
       /\ \/ Includes(selectedIds, activation.id) # activation.wasSelected
          \/ alertRaised /\ ~activation.wasSelected

\* The visual treatment of a rendered badge.
Treatment(badge) == [bg |-> badge.bg, border |-> badge.border, color |-> badge.color]

\* The treatments a lookup table defines.
TreatmentsOf(obj) ==
    {[bg |-> obj[k].bg, border |-> obj[k].border, color |-> obj[k].color] : k \in DOMAIN obj}

\* C22 (as claimed): the follow-up status badge never throws, shows a status
\* of the enumeration in its own treatment and any other value in the
\* Scheduled treatment.
C22_StatusBadgeFallsBackToScheduled ==
    view.place \in {"table", "comparison"} =>
        /\ ~view.status.threw
        /\ Treatment(view.status) =
               IF recordData.followUpStatus \in DOMAIN StatusMap
               THEN StatusMap[recordData.followUpStatus]
               ELSE StatusMap["Scheduled"]

\* C23 (as claimed): the alert-level badge and the risk-level badge, given a
\* value outside their enumeration, neither throw nor render blank: they show
\* one of the treatments their table defines.
C23_AlertAndRiskBadgesFallBack ==
    /\ view.place \in {"table", "comparison"} =>
           /\ ~view.alert.threw
           /\ Treatment(view.alert) \in TreatmentsOf(AlertConfig)
           /\ view.alert.text # Undefined
    /\ view.place = "panel" =>
           /\ ~view.risk.threw
           /\ Treatment(view.risk) \in TreatmentsOf(RiskMap)

====
